---- MODULE Spec2Model ----
(***************************************************************************)
(* Re-implementation pipeline of the repository analyser: categorizer,     *)
(* batcher and the three batch runners found in the source                 *)
(*   "worker"  : reimplementation.worker.ts (self.onmessage)               *)
(*   "index"   : index.tsx, second reimplementAndZip (retry loop)          *)
(*   "service" : src/services/reimplementation.ts (host posts every batch) *)
(* and the page side of the worker, services/reimplementation.ts with the  *)
(* model parameter ("host"): guard, buttons, worker handle, progress list. *)
(* Strings the code inspects (paths, keywords) are sequences of one-       *)
(* character strings; file content is a sequence whose length is           *)
(* file.content.length.                                                    *)
(***************************************************************************)
EXTENDS Integers, Sequences, FiniteSets, TLC

VARIABLES
  impl,               \* which implementation of the pipeline is running
  fileContents,       \* event.data.fileContents / state.lastFileContents
  maxBatchChars,      \* event.data.maxBatchChars / MAX_CHARS_PER_BATCH
  projectStructure,   \* part name -> files pushed to that part
  partName,           \* part whose batches are being processed ("" = none)
  batches,            \* batches of the current part (service: of the run)
  i,                  \* 0-based index of the current batch
  attempt,            \* index.tsx retry loop counter
  response,           \* the generation response processed last
  pc,                 \* position of the async function at its await
  allGeneratedFiles,  \* path -> new content, merged with Object.assign
  inFlight,           \* generation requests issued and not yet answered
  trace,              \* observable events in the order they happen
  completedBatches,   \* service: let completedBatches
  archive,            \* members of the zip handed out, NoArchive before
  lastAnalysisContent,     \* state.lastAnalysisContent ("" before an analysis)
  buttonsDisabled,         \* reimplementZipButton.disabled
  reimplementationWorker,  \* state.reimplementationWorker (0 = null, else id)
  liveWorkers,             \* ids of the workers created and not terminated
  handled,                 \* events of trace the page has handled so far
  progressItems,           \* keys of progressItems (parts with a list item)
  reimplementationOutput,  \* what reimplementationOutput shows
  invocations,             \* host: calls of reimplementAndZip so far
  analysisRun,             \* calls of analyzeRepository so far
  analysisPc,              \* position of analyzeRepository at its await
  filesWrittenBy,          \* the analysis run that wrote lastFileContents
  textWrittenBy            \* the analysis run that wrote lastAnalysisContent

\* the analysis phase's part of the state (runs are numbered from 1; 0 is
\* what was stored before the first of them)
analysisVars == <<analysisRun, analysisPc, filesWrittenBy, textWrittenBy>>

\* the page's part of the state
hostVars == <<lastAnalysisContent, buttonsDisabled, reimplementationWorker,
              liveWorkers, handled, progressItems, reimplementationOutput,
              invocations, analysisVars>>

vars == <<impl, fileContents, maxBatchChars, projectStructure, partName,
          batches, i, attempt, response, pc, allGeneratedFiles, inFlight,
          trace, completedBatches, archive, lastAnalysisContent,
          buttonsDisabled, reimplementationWorker, liveWorkers, handled,
          progressItems, reimplementationOutput, invocations, analysisRun,
          analysisPc, filesWrittenBy, textWrittenBy>>

----------------------------------------------------------------------------
(* Bounds of the model *)

MaxCatFiles == 2      \* files in a list handed to the categorizer
MaxFiles == 4         \* files in a list handed to the batcher
MaxContentLen == 3    \* longest file content
MaxBudget == 3        \* largest maxBatchChars
MaxInvocations == 2   \* calls of reimplementAndZip on one page
MaxRunFiles == 3      \* files in the list a whole run works on
MaxFairFiles == 2     \* files of a run checked for termination
MaxAnalysisRuns == 2  \* calls of analyzeRepository

----------------------------------------------------------------------------
(* Strings *)

UpperCase == <<"A","B","C","D","E","F","G","H","I","J","K","L","M",
               "N","O","P","Q","R","S","T","U","V","W","X","Y","Z">>
LowerCase == <<"a","b","c","d","e","f","g","h","i","j","k","l","m",
               "n","o","p","q","r","s","t","u","v","w","x","y","z">>

\* String.prototype.toLowerCase, character by character
LowerOf ==
  [c \in {UpperCase[k] : k \in 1..Len(UpperCase)} |->
     LowerCase[CHOOSE k \in 1..Len(UpperCase) : UpperCase[k] = c]]

\* a comparison that leaves the path's letters as they are
keepCase(s) == s

\* file.path.toLowerCase()
toLowerCase(s) ==
  [k \in 1..Len(s) |-> IF s[k] \in DOMAIN LowerOf THEN LowerOf[s[k]] ELSE s[k]]

\* String.prototype.includes: kw occurs in s as a contiguous substring
includes(s, kw) ==
  \E k \in 0..(Len(s) - Len(kw)) :
    \A j \in 1..Len(kw) : s[k + j] = kw[j]

\* a content string of n characters
Content(n) == [k \in 1..n |-> "x"]

----------------------------------------------------------------------------
(* Static category configuration *)

WorkerProjectStructure ==
  <<[name |-> "Configuration", keywords |->
      <<<<"c", "o", "n", "f", "i", "g">>,
       <<"v", "i", "t", "e">>,
       <<"p", "a", "c", "k", "a", "g", "e", ".", "j", "s", "o", "n">>,
       <<"t", "s", "c", "o", "n", "f", "i", "g">>,
       <<".", "e", "n", "v">>,
       <<"s", "e", "t", "u", "p">>,
       <<"h", "t", "m", "l">>>>],
    [name |-> "Styling", keywords |->
      <<<<".", "c", "s", "s">>,
       <<".", "s", "c", "s", "s">>,
       <<".", "l", "e", "s", "s">>,
       <<"t", "a", "i", "l", "w", "i", "n", "d">>,
       <<"s", "t", "y", "l", "e", "s">>>>],
    [name |-> "CoreLogic", keywords |->
      <<<<"a", "p", "i">>,
       <<"s", "e", "r", "v", "i", "c", "e">>,
       <<"u", "t", "i", "l">>,
       <<"l", "i", "b">>,
       <<"c", "o", "r", "e">>,
       <<"h", "e", "l", "p", "e", "r">>,
       <<"l", "o", "g", "i", "c">>,
       <<"s", "e", "r", "v", "e", "r">>,
       <<"c", "o", "n", "t", "r", "o", "l", "l", "e", "r">>,
       <<"m", "o", "d", "e", "l">>,
       <<"w", "o", "r", "k", "e", "r">>,
       <<".", "t", "s">>,
       <<".", "j", "s">>>>],
    [name |-> "UI", keywords |->
      <<<<"c", "o", "m", "p", "o", "n", "e", "n", "t">>,
       <<"v", "i", "e", "w">>,
       <<"p", "a", "g", "e">>,
       <<"u", "i">>,
       <<"l", "a", "y", "o", "u", "t">>,
       <<"h", "e", "a", "d", "e", "r">>,
       <<"f", "o", "o", "t", "e", "r">>,
       <<".", "t", "s", "x">>,
       <<".", "j", "s", "x">>>>],
    [name |-> "Miscellaneous", keywords |-> <<>>]>>

IndexProjectParts ==
  <<[name |-> "Configuration", keywords |->
      <<<<"c", "o", "n", "f", "i", "g">>,
       <<"v", "i", "t", "e">>,
       <<"p", "a", "c", "k", "a", "g", "e", ".", "j", "s", "o", "n">>,
       <<"t", "s", "c", "o", "n", "f", "i", "g">>,
       <<".", "e", "n", "v">>,
       <<"s", "e", "t", "u", "p">>,
       <<"i", "n", "i", "t">>>>],
    [name |-> "Styling", keywords |->
      <<<<".", "c", "s", "s">>,
       <<".", "s", "c", "s", "s">>,
       <<".", "l", "e", "s", "s">>,
       <<"t", "a", "i", "l", "w", "i", "n", "d">>,
       <<"s", "t", "y", "l", "e", "s">>>>],
    [name |-> "Core Logic/Services", keywords |->
      <<<<"a", "p", "i">>,
       <<"s", "e", "r", "v", "i", "c", "e">>,
       <<"u", "t", "i", "l">>,
       <<"l", "i", "b">>,
       <<"c", "o", "r", "e">>,
       <<"h", "e", "l", "p", "e", "r">>,
       <<"l", "o", "g", "i", "c">>,
       <<"s", "e", "r", "v", "e", "r">>>>],
    [name |-> "UI Components", keywords |->
      <<<<"c", "o", "m", "p", "o", "n", "e", "n", "t">>,
       <<"v", "i", "e", "w">>,
       <<"p", "a", "g", "e">>,
       <<"u", "i">>,
       <<"l", "a", "y", "o", "u", "t">>,
       <<"h", "e", "a", "d", "e", "r">>,
       <<"f", "o", "o", "t", "e", "r">>>>],
    [name |-> "Miscellaneous", keywords |-> <<>>]>>

\* paths the categorizer is exercised on
PathServiceCss == <<"s", "r", "c", "/", "s", "e", "r", "v", "i", "c", "e", ".", "c", "s", "s">>
PathServiceCssUpper == <<"S", "R", "C", "/", "S", "e", "r", "v", "i", "c", "e", ".", "C", "S", "S">>
PathViteConfig == <<"v", "i", "t", "e", ".", "c", "o", "n", "f", "i", "g", ".", "t", "s">>
PathApiJs == <<"a", "p", "i", ".", "j", "s">>
PathAppTsx == <<"A", "p", "p", ".", "t", "s", "x">>
PathReadme == <<"R", "E", "A", "D", "M", "E", ".", "m", "d">>
PathHeaderVue == <<"H", "e", "a", "d", "e", "r", ".", "v", "u", "e">>
PathIndexHtml == <<"i", "n", "d", "e", "x", ".", "h", "t", "m", "l">>

CatPaths == {PathServiceCss, PathServiceCssUpper, PathViteConfig, PathApiJs,
             PathAppTsx, PathReadme, PathHeaderVue, PathIndexHtml}

\* the literal 'Miscellaneous' both categorizers fall back to
CatchAll == "Miscellaneous"

\* the ordered configuration each implementation declares
ProjectParts(im) ==
  IF im = "worker" THEN WorkerProjectStructure ELSE IndexProjectParts

\* Object.keys(projectStructure) of the worker
WorkerPartOrder ==
  [k \in 1..Len(WorkerProjectStructure) |-> WorkerProjectStructure[k].name]

\* the names of projectParts in index.tsx, in array order
IndexPartOrder ==
  [k \in 1..Len(IndexProjectParts) |-> IndexProjectParts[k].name]

\* the order in which the run walks the parts (Object.keys / array order)
PartOrder(im) ==
  IF im = "service" THEN <<"CoreLogic">>
  ELSE IF im = "worker" THEN WorkerPartOrder ELSE IndexPartOrder

WorkerPartNames == {WorkerPartOrder[k] : k \in DOMAIN WorkerPartOrder}

IndexPartNames == {IndexPartOrder[k] : k \in DOMAIN IndexPartOrder}

PartNames(im) ==
  IF im = "service" THEN {"CoreLogic"}
  ELSE IF im = "worker" THEN WorkerPartNames ELSE IndexPartNames

----------------------------------------------------------------------------
(* Categorizer *)

Min(S) == CHOOSE x \in S : \A y \in S : x <= y
Max(S) == CHOOSE x \in S : \A y \in S : x >= y
Range(s) == {s[k] : k \in 1..Len(s)}

\* part.keywords.some(kw => file.path.toLowerCase().includes(kw))
someKeyword(part, path) ==
  LET lower == toLowerCase(path)
  IN  \E k \in 1..Len(part.keywords) : includes(lower, part.keywords[k])

\* Object.keys(projectStructure).find(...) || 'Miscellaneous'
findAssignedPart(parts, path) ==
  LET hits == {k \in 1..Len(parts) : someKeyword(parts[k], path)}
  IN  IF hits = {} THEN CatchAll ELSE parts[Min(hits)].name

\* a loop without the break: the last matching part is the one kept
loopNoBreak(parts, path) ==
  LET hits == {k \in 1..Len(parts) :
                 parts[k].name # "Miscellaneous" /\ someKeyword(parts[k], path)}
  IN  IF hits = {} THEN "Miscellaneous" ELSE parts[Max(hits)].name

\* for (const part of projectParts) { skip Miscellaneous; first hit; break }
\* if (!assigned) 'Miscellaneous'
loopAssignedPart(parts, path) ==
  LET hits == {k \in 1..Len(parts) :
                 parts[k].name # "Miscellaneous" /\ someKeyword(parts[k], path)}
  IN  IF hits = {} THEN "Miscellaneous" ELSE parts[Min(hits)].name

\* a categorizer that keeps the last matching part instead of the first
lastAssignedParts(im, path) ==
  LET parts == ProjectParts(im)
      hits == {k \in 1..Len(parts) : someKeyword(parts[k], path)}
  IN  IF hits = {} THEN {CatchAll} ELSE {parts[Max(hits)].name}

\* a categorizer whose loop lacks the break: every matching part gets the file
allAssignedParts(im, path) ==
  LET parts == ProjectParts(im)
      hits == {k \in 1..Len(parts) : someKeyword(parts[k], path)}
  IN  IF hits = {} THEN {CatchAll} ELSE {parts[k].name : k \in hits}

\* the parts one file is pushed to (the code pushes to exactly one)
assignedParts(im, path) ==
  IF im = "worker" THEN {findAssignedPart(ProjectParts(im), path)}
  ELSE {loopAssignedPart(ProjectParts(im), path)}

RECURSIVE pushFiles(_, _, _, _)
pushFiles(im, files, k, ps) ==
  IF k > Len(files) THEN ps
  ELSE pushFiles(im, files, k + 1,
         [n \in DOMAIN ps |->
            IF n \in assignedParts(im, files[k].path)
            THEN Append(ps[n], files[k]) ELSE ps[n]])

\* the whole categorization pass over the input list
categorize(im, files) ==
  pushFiles(im, files, 1, [n \in PartNames(im) |-> <<>>])

\* service: projectStructure = { CoreLogic: { files: state.lastFileContents } }
structureOf(im, files) ==
  IF im = "service" THEN [n \in {"CoreLogic"} |-> files]
  ELSE categorize(im, files)

----------------------------------------------------------------------------
(* Batcher *)

\* the test that compares the incoming file alone with the budget
mustCloseFileOnly(st, file, max) ==
  Len(st.currentBatch) > 0 /\ Len(file.content) > max

\* a test without currentBatch.length > 0
mustCloseEvenIfEmpty(st, file, max) ==
  st.currentCharCount + Len(file.content) > max

\* a test that already closes the batch when the file fills it exactly
mustCloseAtBudget(st, file, max) ==
  Len(st.currentBatch) > 0
    /\ st.currentCharCount + Len(file.content) >= max

\* currentBatch.length > 0 && (currentCharCount + file.content.length > max)
mustClose(st, file, max) ==
  Len(st.currentBatch) > 0
    /\ st.currentCharCount + Len(file.content) > max

\* worker, first index.tsx variant, service: close, reset, then push
workerBatchStep(st, file, max) ==
  LET open == IF mustClose(st, file, max)
              THEN [batches |-> Append(st.batches, st.currentBatch),
                    currentBatch |-> <<>>, currentCharCount |-> 0]
              ELSE st
  IN  [batches |-> open.batches,
       currentBatch |-> Append(open.currentBatch, file),
       currentCharCount |-> open.currentCharCount + Len(file.content)]

\* a restart as [file] that carries the closed batch's count over
indexBatchStepStale(st, file, max) ==
  IF mustClose(st, file, max)
  THEN [batches |-> Append(st.batches, st.currentBatch),
        currentBatch |-> <<file>>,
        currentCharCount |-> st.currentCharCount + Len(file.content)]
  ELSE [batches |-> st.batches,
        currentBatch |-> Append(st.currentBatch, file),
        currentCharCount |-> st.currentCharCount + Len(file.content)]

\* second index.tsx variant: close and restart as [file], else push
indexBatchStep(st, file, max) ==
  IF mustClose(st, file, max)
  THEN [batches |-> Append(st.batches, st.currentBatch),
        currentBatch |-> <<file>>,
        currentCharCount |-> Len(file.content)]
  ELSE [batches |-> st.batches,
        currentBatch |-> Append(st.currentBatch, file),
        currentCharCount |-> st.currentCharCount + Len(file.content)]

\* a loop body that never adds the file's length to currentCharCount
batchStepNoCount(im, st, file, max) ==
  IF mustClose(st, file, max)
  THEN [batches |-> Append(st.batches, st.currentBatch),
        currentBatch |-> <<file>>, currentCharCount |-> 0]
  ELSE [batches |-> st.batches,
        currentBatch |-> Append(st.currentBatch, file),
        currentCharCount |-> st.currentCharCount]

batchStep(im, st, file, max) ==
  IF im = "index" THEN indexBatchStep(st, file, max)
  ELSE workerBatchStep(st, file, max)

RECURSIVE batchLoop(_, _, _, _, _)
batchLoop(im, files, k, max, st) ==
  IF k > Len(files) THEN st
  ELSE batchLoop(im, files, k + 1, max, batchStep(im, st, files[k], max))

\* a batcher that forgets the batch still open after the loop
noFlushBatch(st) == st.batches

\* if (currentBatch.length > 0) batches.push(currentBatch)
flushBatch(st) ==
  IF Len(st.currentBatch) > 0 THEN Append(st.batches, st.currentBatch)
  ELSE st.batches

makeBatches(im, files, max) ==
  flushBatch(batchLoop(im, files, 1, max,
    [batches |-> <<>>, currentBatch |-> <<>>, currentCharCount |-> 0]))

\* sum of file.content.length over a batch
RECURSIVE charCount(_)
charCount(batch) ==
  IF batch = <<>> THEN 0
  ELSE Len(Head(batch).content) + charCount(Tail(batch))

\* the batches laid end to end
RECURSIVE flatten(_)
flatten(bs) == IF bs = <<>> THEN <<>> ELSE Head(bs) \o flatten(Tail(bs))

----------------------------------------------------------------------------
(* Inputs *)

\* what a generation call can hand back: path -> new content
GenPaths == {"x/y.ts", "z.ts"}
GenContents == {"v1", "v2"}
EmptyFiles == [p \in {} |-> "v1"]
GenFileMaps == UNION {[D -> GenContents] : D \in SUBSET GenPaths}

\* the ways one generation call can end: the call throws, its text is not
\* JSON, the JSON has no files key, the JSON (bare, or inside a ```json
\* fence) has a files key
Responses ==
  [kind : {"throw", "unparseable", "nofiles"}, files : {EmptyFiles}]
    \cup [kind : {"json", "fenced"}, files : GenFileMaps]

NoResponse == [kind |-> "none", files |-> EmptyFiles]
NoArchive == [built |-> FALSE, files |-> EmptyFiles]

\* files for the categorizer: every path with two different contents
CatFiles == [path : CatPaths, content : {Content(1), Content(2)}]

CatFileLists ==
  {fs \in UNION {[1..n -> CatFiles] : n \in 1..MaxCatFiles} :
     \A a, b \in 1..Len(fs) : a # b => fs[a] # fs[b]}

\* files for the batcher: distinct paths of one part, any content length
BatchLetters == <<"a", "b", "c", "d", "e", "f", "g", "h">>
BatchPath(k) == <<"a", "p", "i", "/", BatchLetters[k], ".", "j", "s">>

BatchFileLists ==
  UNION {{[k \in 1..n |-> [path |-> BatchPath(k), content |-> Content(lens[k])]] :
            lens \in [1..n -> 1..MaxContentLen]} : n \in 1..MaxFiles}


----------------------------------------------------------------------------
(* The categorizer and the batcher on their own *)

Idle ==
  /\ partName = ""
  /\ batches = <<>>
  /\ i = 0
  /\ attempt = 0
  /\ response = NoResponse
  /\ allGeneratedFiles = EmptyFiles
  /\ inFlight = {}
  /\ trace = <<>>
  /\ completedBatches = 0
  /\ archive = NoArchive
  /\ buttonsDisabled = FALSE
  /\ reimplementationWorker = 0
  /\ liveWorkers = {}
  /\ handled = 0
  /\ progressItems = {}
  /\ reimplementationOutput = ""
  /\ analysisRun = 0
  /\ analysisPc = "idle"
  /\ filesWrittenBy = 0
  /\ textWrittenBy = 0
  /\ invocations = 0

InitCategorize ==
  /\ impl \in {"worker", "index"}
  /\ fileContents \in CatFileLists
  /\ maxBatchChars = 1
  /\ projectStructure = [n \in PartNames(impl) |-> <<>>]
  /\ pc = "input"
  /\ lastAnalysisContent = "analysis"
  /\ Idle

\* the categorization pass of one run
CategorizeFiles ==
  /\ pc = "input"
  /\ projectStructure' = categorize(impl, fileContents)
  /\ pc' = "categorized"
  /\ UNCHANGED <<impl, fileContents, maxBatchChars, partName, batches, i,
                 attempt, response, allGeneratedFiles, inFlight, trace,
                 completedBatches, archive>>
  /\ UNCHANGED hostVars

NextCategorize == CategorizeFiles

SpecCategorize == InitCategorize /\ [][NextCategorize]_vars

InitBatch ==
  /\ impl \in {"worker", "index", "service"}
  /\ fileContents \in BatchFileLists
  /\ maxBatchChars \in 1..MaxBudget
  /\ projectStructure = structureOf(impl, fileContents)
  /\ pc = "categorized"
  /\ lastAnalysisContent = "analysis"
  /\ Idle

\* the batching loop of one non-empty part
MakeBatches ==
  /\ pc = "categorized"
  /\ \E n \in DOMAIN projectStructure :
       /\ projectStructure[n] # <<>>
       /\ partName' = n
       /\ batches' = makeBatches(impl, projectStructure[n], maxBatchChars)
  /\ pc' = "batched"
  /\ UNCHANGED <<impl, fileContents, maxBatchChars, projectStructure, i,
                 attempt, response, allGeneratedFiles, inFlight, trace,
                 completedBatches, archive>>
  /\ UNCHANGED hostVars

NextBatch == MakeBatches

SpecBatch == InitBatch /\ [][NextBatch]_vars

----------------------------------------------------------------------------
(* Claims about the categorizer *)

\* the parts whose list holds the file
PartsHolding(file) ==
  {n \in DOMAIN projectStructure : file \in Range(projectStructure[n])}

\* position of a part in the declared order
PartIndex(im, n) == CHOOSE k \in 1..Len(PartOrder(im)) : PartOrder(im)[k] = n

RECURSIVE SumLen(_, _)
SumLen(f, S) ==
  IF S = {} THEN 0
  ELSE LET n == CHOOSE x \in S : TRUE IN Len(f[n]) + SumLen(f, S \ {n})

\* C1: after categorization every input file is in the file list of exactly
\* one category, and the lists together hold as many entries as the input
\* (no file in zero lists, none in two); a file matching no keyword is in
\* Miscellaneous.
C1_ExactlyOneCategory ==
  pc = "categorized" =>
    /\ \A k \in 1..Len(fileContents) :
         Cardinality(PartsHolding(fileContents[k])) = 1
    /\ SumLen(projectStructure, DOMAIN projectStructure) = Len(fileContents)
    /\ \A k \in 1..Len(fileContents) :
         (\A j \in 1..Len(ProjectParts(impl)) :
            ~someKeyword(ProjectParts(impl)[j], fileContents[k].path))
           => PartsHolding(fileContents[k]) = {"Miscellaneous"}

C1_Witness ==
  /\ pc = "categorized"
  /\ Len(fileContents) = 2
  /\ fileContents[1].path = PathReadme
  /\ fileContents[1] \in Range(projectStructure["Miscellaneous"])
  /\ fileContents[2].path = PathServiceCss
  /\ fileContents[2] \in Range(projectStructure["Styling"])

\* C2: a categorized file sits in the earliest declared category with a
\* keyword occurring in its lower-cased path, even when a later category
\* matches too (src/service.css is in Styling, not in the core-logic part),
\* and files with the same path and different content share a category.
C2_FirstMatchWins ==
  pc = "categorized" =>
    /\ \A n \in DOMAIN projectStructure :
         \A file \in Range(projectStructure[n]) :
           /\ \A j \in 1..(PartIndex(impl, n) - 1) :
                ~someKeyword(ProjectParts(impl)[j], file.path)
           /\ \/ someKeyword(ProjectParts(impl)[PartIndex(impl, n)], file.path)
              \/ n = "Miscellaneous"
    /\ \A k \in 1..Len(fileContents) :
         fileContents[k].path = PathServiceCss
           => fileContents[k] \in Range(projectStructure["Styling"])
    /\ \A a, b \in 1..Len(fileContents) :
         fileContents[a].path = fileContents[b].path
           => PartsHolding(fileContents[a]) = PartsHolding(fileContents[b])

C2_Witness ==
  /\ pc = "categorized"
  /\ Len(fileContents) = 2
  /\ fileContents[1].path = PathServiceCss
  /\ fileContents[2].path = PathServiceCss
  /\ fileContents[1].content # fileContents[2].content
  /\ someKeyword(ProjectParts(impl)[3], PathServiceCss)
  /\ Range(projectStructure["Styling"]) = Range(fileContents)

----------------------------------------------------------------------------
(* Claims about the batcher *)

Oversized(file) == Len(file.content) > maxBatchChars

\* C3: the batches laid end to end are exactly the part's file list, in
\* order, nothing lost and nothing duplicated.
C3_BatchesPartitionInput ==
  pc = "batched" => flatten(batches) = projectStructure[partName]

C3_Witness ==
  /\ pc = "batched"
  /\ Len(batches) >= 2
  /\ \E b \in 1..Len(batches) : Len(batches[b]) >= 2
  /\ Len(batches[Len(batches)]) = 1

\* C4: every batch is within maxBatchChars unless it holds exactly one file
\* whose own content is longer than maxBatchChars.
C4_BatchWithinBudget ==
  pc = "batched" =>
    \A b \in 1..Len(batches) :
      \/ charCount(batches[b]) <= maxBatchChars
      \/ Len(batches[b]) = 1 /\ Oversized(batches[b][1])

C4_Witness ==
  /\ pc = "batched"
  /\ \E b \in 1..Len(batches) :
       Len(batches[b]) >= 2 /\ charCount(batches[b]) = maxBatchChars
  /\ \E b \in 1..Len(batches) :
       Len(batches[b]) = 1 /\ charCount(batches[b]) > maxBatchChars

\* C5: a file longer than maxBatchChars is in exactly one batch and is the
\* only file of that batch, wherever it sits in the list.
C5_OversizedFileAlone ==
  pc = "batched" =>
    \A k \in 1..Len(projectStructure[partName]) :
      LET file == projectStructure[partName][k]
          holding == {b \in 1..Len(batches) : file \in Range(batches[b])}
      IN  Oversized(file) =>
            /\ Cardinality(holding) = 1
            /\ \A b \in holding : batches[b] = <<file>>

C5_Witness ==
  /\ pc = "batched"
  /\ Len(projectStructure[partName]) >= 3
  /\ ~Oversized(projectStructure[partName][1])
  /\ Oversized(projectStructure[partName][2])
  /\ ~Oversized(projectStructure[partName][3])
  /\ \E b \in 1..Len(batches) : batches[b] = <<projectStructure[partName][2]>>

----------------------------------------------------------------------------
(* Whole runs: inputs and shared steps *)

RunPaths == {PathServiceCss, PathServiceCssUpper, PathApiJs, PathReadme}
RunFiles == [path : RunPaths, content : {Content(1)}]

\* budgets of a whole run: one file per batch, or two
RunBudgets == {1, 2}

\* the analysed file set: non-empty, paths unique
RunFileLists ==
  {fs \in UNION {[1..n -> RunFiles] : n \in 1..MaxRunFiles} :
     \A a, b \in 1..Len(fs) : a # b => fs[a].path # fs[b].path}

\* what the analysis left behind when reimplementAndZip is called: nothing
\* yet, or files whose analysis text is missing, or both
AnalysisTexts == {"", "analysis"}

\* the worker is handed what passed the page's guard; the other runners
\* start at the guard
InitRun(im) ==
  /\ impl = im
  /\ IF im = "worker"
     THEN fileContents \in RunFileLists /\ lastAnalysisContent = "analysis"
     ELSE /\ fileContents \in RunFileLists \cup {<<>>}
          /\ lastAnalysisContent \in AnalysisTexts
  /\ maxBatchChars \in RunBudgets
  /\ projectStructure = [n \in PartNames(im) |-> <<>>]
  /\ pc = "start"
  /\ Idle

\* an observable event: a status shown or posted, a generation call issued
\* ("request") or answered ("response-ok", "response-fail"), the archive
\* handed out ("complete", "download"); "batch-failed" marks the point where
\* a batch is left with no further attempt
Ev(type, part, batch, att) ==
  [type |-> type, partName |-> part, batch |-> batch, attempt |-> att]

\* a merge that keeps the earlier content of a path generated twice
assignKeepExisting(target, source) ==
  [p \in DOMAIN target \cup DOMAIN source |->
     IF p \in DOMAIN target THEN target[p] ELSE source[p]]

\* Object.assign(allGeneratedFiles, generated.files)
assign(target, source) ==
  [p \in DOMAIN target \cup DOMAIN source |->
     IF p \in DOMAIN source THEN source[p] ELSE target[p]]

\* a part loop without the `continue` of empty parts
nextPartNoSkip(im, ps, k) ==
  IF k + 1 <= Len(PartOrder(im)) THEN k + 1 ELSE 0

\* for (const partName of Object.keys(projectStructure)):
\* the next part after position k that is not skipped by `continue`
nextPart(im, ps, k) ==
  LET later == {j \in (k + 1)..Len(PartOrder(im)) : Len(ps[PartOrder(im)[j]]) # 0}
  IN  IF later = {} THEN 0 ELSE Min(later)

\* a batch loop that issues the call before it posts the status
StartBatchCallFirst(n, bs, k, tr) ==
  /\ partName' = n
  /\ batches' = bs
  /\ i' = k
  /\ attempt' = 1
  /\ inFlight' = {<<n, k>>}
  /\ trace' = tr \o <<Ev("request", n, k, 1), Ev("progress", n, k, 0)>>
  /\ pc' = "awaitGenerate"
  /\ UNCHANGED archive

\* top of the batch loop body: status for batch k of part n, then the
\* generation call is issued and awaited
StartBatch(n, bs, k, tr) ==
  /\ partName' = n
  /\ batches' = bs
  /\ i' = k
  /\ attempt' = 1
  /\ inFlight' = {<<n, k>>}
  /\ trace' = tr \o <<Ev("progress", n, k, 0), Ev("request", n, k, 1)>>
  /\ pc' = "awaitGenerate"
  /\ UNCHANGED archive

\* after the part loop: the zip is filled and generateAsync awaited
StartZip(tr) ==
  /\ partName' = ""
  /\ batches' = <<>>
  /\ i' = 0
  /\ attempt' = 0
  /\ inFlight' = {}
  /\ trace' = tr
  /\ pc' = "awaitZip"
  /\ UNCHANGED archive

\* first part of the run, or the zip when every part is empty
EnterParts(ps, k, tr) ==
  LET j == nextPart(impl, ps, k)
  IN  IF j # 0
      THEN StartBatch(PartOrder(impl)[j],
                      makeBatches(impl, ps[PartOrder(impl)[j]], maxBatchChars),
                      0, tr)
      ELSE StartZip(tr)

\* a batch loop that runs one index past the last batch
moreBatchesInclusive(k, bs) == k <= Len(bs)

\* a batch loop that stops one batch short
moreBatchesButLast(k, bs) == k + 1 < Len(bs)

\* for (let i = 0; i < batches.length; i++): the loop test
moreBatches(k, bs) == k < Len(bs)

\* a batch succeeded: next batch of the part, or the part's success status
\* and the next part, or the zip
Continue(tr) ==
  IF moreBatches(i + 1, batches)
  THEN StartBatch(partName, batches, i + 1, tr)
  ELSE EnterParts(projectStructure, PartIndex(impl, partName),
                  Append(tr, Ev("progress-success", partName, 0, 0)))

\* a run that ends on a failure without posting anything
AbortSilently(tr) ==
  /\ trace' = tr
  /\ pc' = "failed"
  /\ inFlight' = {}
  /\ UNCHANGED <<partName, batches, i, attempt, archive>>

\* the run ends in its catch block
Abort(tr) ==
  /\ trace' = Append(tr, Ev("error", "", 0, 0))
  /\ pc' = "failed"
  /\ inFlight' = {}
  /\ UNCHANGED <<partName, batches, i, attempt, archive>>

\* a zip that takes its first entry only
zipFileOnce(zip, filePath, content) ==
  IF DOMAIN zip = {}
  THEN [p \in {filePath} |-> content]
  ELSE zip

\* zip.file(filePath, content): the member is added under that name
zipFile(zip, filePath, content) ==
  [p \in DOMAIN zip \cup {filePath} |->
     IF p = filePath THEN content ELSE zip[p]]

\* for (const [filePath, content] of Object.entries(allGeneratedFiles))
RECURSIVE zipEntries(_, _, _)
zipEntries(zip, files, todo) ==
  IF todo = {} THEN zip
  ELSE LET filePath == CHOOSE p \in todo : TRUE
       IN  zipEntries(zipFile(zip, filePath, files[filePath]), files,
                      todo \ {filePath})

\* new JSZip() filled from the accumulated files
zipOf(files) == zipEntries(EmptyFiles, files, DOMAIN files)

\* zip.generateAsync settles: the archive is handed out, or the run fails
ZipReturns(done) ==
  /\ pc = "awaitZip"
  /\ \E ok \in BOOLEAN :
       IF ok
       THEN /\ archive' = [built |-> TRUE, files |-> zipOf(allGeneratedFiles)]
            /\ trace' = Append(trace, Ev(done, "", 0, 0))
            /\ pc' = "done"
       ELSE /\ archive' = archive
            /\ trace' = Append(trace, Ev("error", "", 0, 0))
            /\ pc' = "failed"
  /\ UNCHANGED <<impl, fileContents, maxBatchChars, projectStructure, partName,
                 batches, i, attempt, response, allGeneratedFiles, inFlight,
                 completedBatches>>

----------------------------------------------------------------------------
(* reimplementation.worker.ts *)

\* a failure that throws away what earlier batches produced
clearedOnFailure(files) == EmptyFiles

\* a call that throws, a text that does not parse and a missing files key
\* all leave the try block before Object.assign: nothing is written
keptOnFailure(files) == files

\* JSON.parse(result.text) succeeds and generated.files is truthy
workerAccepts(r) == r.kind = "json"

\* self.onmessage up to the first awaited generateContent
WorkerOnMessage ==
  /\ impl = "worker"
  /\ pc = "start"
  /\ projectStructure' = categorize(impl, fileContents)
  /\ EnterParts(projectStructure', 0, trace)
  /\ UNCHANGED <<impl, fileContents, maxBatchChars, response,
                 allGeneratedFiles, completedBatches>>
  /\ UNCHANGED hostVars

\* generateContent settles; the loop runs on to the next await
WorkerGenerateReturns ==
  /\ impl = "worker"
  /\ pc = "awaitGenerate"
  /\ \E r \in Responses :
       /\ response' = r
       /\ IF workerAccepts(r)
          THEN /\ allGeneratedFiles' = assign(allGeneratedFiles, r.files)
               /\ Continue(Append(trace, Ev("response-ok", partName, i, attempt)))
          ELSE /\ allGeneratedFiles' = keptOnFailure(allGeneratedFiles)
               /\ Abort(trace \o <<Ev("response-fail", partName, i, attempt),
                                   Ev("batch-failed", partName, i, attempt)>>)
  /\ UNCHANGED <<impl, fileContents, maxBatchChars, projectStructure,
                 completedBatches>>
  /\ UNCHANGED hostVars

WorkerZipReturns ==
  /\ impl = "worker"
  /\ ZipReturns("complete")
  /\ UNCHANGED hostVars

NextWorker == WorkerOnMessage \/ WorkerGenerateReturns \/ WorkerZipReturns

SpecWorker == InitRun("worker") /\ [][NextWorker]_vars

----------------------------------------------------------------------------
(* index.tsx, second reimplementAndZip: the retry loop *)

\* the fence is stripped before JSON.parse; result.files is truthy
indexAccepts(r) == r.kind \in {"json", "fenced"}

\* a retry loop that gives up on the first failure
isFirstAttempt(a) == a = 1

\* if (attempt === 2) in the catch block
isFinalAttempt(a) == a = 2

\* for (let attempt = 1; attempt <= 2; attempt++)
inRetryLoop(a) == a <= 2

\* a retry loop that never records the success
successForgotten == FALSE

\* success = true; break;
successAfterMerge == TRUE

\* a guard that tests the analysis text only
hasAnalysisText(text, files) == text # ""

\* !(!lastAnalysisContent || lastFileContents.length === 0)
hasAnalysisData(text, files) == text # "" /\ Len(files) # 0

\* the guard fails: the error is shown and the function returns
Refuse ==
  /\ reimplementationOutput' = "error"
  /\ pc' = "refused"
  /\ UNCHANGED <<projectStructure, partName, batches, i, attempt, inFlight,
                 trace, archive, lastAnalysisContent, buttonsDisabled,
                 reimplementationWorker, liveWorkers, handled, progressItems,
                 invocations, analysisVars>>

\* the catch and finally blocks of index.tsx: the error is shown when the
\* run failed, the buttons are enabled again
IndexFinally ==
  /\ buttonsDisabled' = FALSE
  /\ reimplementationOutput' =
       IF pc' = "failed" THEN "error" ELSE reimplementationOutput
  /\ UNCHANGED <<lastAnalysisContent, reimplementationWorker, liveWorkers,
                 handled, progressItems, invocations, analysisVars>>

\* reimplementAndZip up to the first awaited generateContent
IndexStart ==
  /\ impl = "index"
  /\ pc = "start"
  /\ IF hasAnalysisData(lastAnalysisContent, fileContents)
     THEN /\ buttonsDisabled' = TRUE
          /\ reimplementationOutput' = ""
          /\ projectStructure' = categorize(impl, fileContents)
          /\ EnterParts(projectStructure', 0, trace)
          /\ UNCHANGED <<lastAnalysisContent, reimplementationWorker,
                         liveWorkers, handled, progressItems,
                         invocations, analysisVars>>
     ELSE Refuse
  /\ UNCHANGED <<impl, fileContents, maxBatchChars, response,
                 allGeneratedFiles, completedBatches>>

\* generateContent settles inside the retry loop
IndexGenerateReturns ==
  /\ impl = "index"
  /\ pc = "awaitGenerate"
  /\ \E r \in Responses :
       /\ response' = r
       /\ IF indexAccepts(r)
          THEN /\ allGeneratedFiles' = assign(allGeneratedFiles, r.files)
               /\ LET tr == Append(trace, Ev("response-ok", partName, i, attempt))
                  IN  IF successAfterMerge THEN Continue(tr) ELSE Abort(tr)
          ELSE /\ allGeneratedFiles' = keptOnFailure(allGeneratedFiles)
               /\ LET tr == Append(trace, Ev("response-fail", partName, i, attempt))
                  IN  IF isFinalAttempt(attempt)
                      THEN Abort(Append(tr, Ev("batch-failed", partName, i, attempt)))
                      ELSE /\ trace' = Append(tr, Ev("warning", partName, i, attempt))
                           /\ pc' = "backoff"
                           /\ inFlight' = {}
                           /\ UNCHANGED <<partName, batches, i, attempt, archive>>
  /\ IF pc' = "failed" THEN IndexFinally ELSE UNCHANGED hostVars
  /\ UNCHANGED <<impl, fileContents, maxBatchChars, projectStructure,
                 completedBatches>>

\* the 2000 ms backoff elapses; attempt++ and the loop test
IndexBackoffDone ==
  /\ impl = "index"
  /\ pc = "backoff"
  /\ IF inRetryLoop(attempt + 1)
     THEN /\ attempt' = attempt + 1
          /\ inFlight' = {<<partName, i>>}
          /\ trace' = Append(trace, Ev("request", partName, i, attempt + 1))
          /\ pc' = "awaitGenerate"
          /\ UNCHANGED <<partName, batches, i, archive>>
     ELSE Abort(Append(trace, Ev("batch-failed", partName, i, attempt)))
  /\ IF pc' = "failed" THEN IndexFinally ELSE UNCHANGED hostVars
  /\ UNCHANGED <<impl, fileContents, maxBatchChars, projectStructure, response,
                 allGeneratedFiles, completedBatches>>

IndexZipReturns ==
  /\ impl = "index"
  /\ ZipReturns("download")
  /\ IndexFinally

NextIndex ==
  IndexStart \/ IndexGenerateReturns \/ IndexBackoffDone \/ IndexZipReturns

SpecIndex == InitRun("index") /\ [][NextIndex]_vars

----------------------------------------------------------------------------
(* the two runners that await each generation call before the next one *)

InitSequential == \E im \in {"worker", "index"} : InitRun(im)

NextSequential == NextWorker \/ NextIndex

SpecSequential == InitSequential /\ [][NextSequential]_vars

\* the same runs when every awaited promise settles: each generation call
\* returns or throws, the backoff timer fires, generateAsync settles
InitSequentialFair ==
  \E im \in {"worker", "index"} : InitRun(im) /\ Len(fileContents) <= MaxFairFiles

SpecSequentialFair ==
  InitSequentialFair /\ [][NextSequential]_vars /\ WF_vars(NextSequential)

----------------------------------------------------------------------------
(* src/services/reimplementation.ts: the host posts every batch at once *)

\* batches.forEach: one list item and one posted 'reimplement' per batch
RECURSIVE postAll(_, _)
postAll(n, k) ==
  IF k >= n THEN <<>>
  ELSE <<Ev("progress", "CoreLogic", k, 0), Ev("request", "CoreLogic", k, 1)>>
         \o postAll(n, k + 1)

\* setButtonState(..., false); worker?.terminate(); worker = null, with
\* what reimplementationOutput shows afterwards
Cleanup(out) ==
  /\ buttonsDisabled' = FALSE
  /\ liveWorkers' = liveWorkers \ {reimplementationWorker}
  /\ reimplementationWorker' = 0
  /\ reimplementationOutput' = out

\* reimplementAndZip: guard, worker creation, batching, handlers, forEach
\* (the repository URL parses)
ServiceStart ==
  /\ impl = "service"
  /\ pc = "start"
  /\ IF hasAnalysisData(lastAnalysisContent, fileContents)
     THEN /\ projectStructure' = structureOf(impl, fileContents)
          /\ \E keyOk \in BOOLEAN :
               IF keyOk
               THEN /\ batches' = makeBatches(impl, projectStructure'["CoreLogic"],
                                              maxBatchChars)
                    /\ partName' = "CoreLogic"
                    /\ inFlight' =
                         {<<"CoreLogic", k>> : k \in 0..(Len(batches') - 1)}
                    /\ trace' = trace \o postAll(Len(batches'), 0)
                    /\ pc' = "awaitMessages"
                    /\ buttonsDisabled' = TRUE
                    /\ reimplementationOutput' = ""
                    /\ reimplementationWorker' = 1
                    /\ liveWorkers' = (liveWorkers \ {reimplementationWorker}) \cup {1}
               ELSE /\ trace' = Append(trace, Ev("error", "", 0, 0))
                    /\ pc' = "failed"
                    /\ Cleanup("error")
                    /\ UNCHANGED <<batches, partName, inFlight>>
          /\ UNCHANGED <<i, attempt, archive, lastAnalysisContent, handled,
                         progressItems, invocations, analysisVars>>
     ELSE Refuse
  /\ UNCHANGED <<impl, fileContents, maxBatchChars, response,
                 allGeneratedFiles, completedBatches>>

\* worker.onmessage, case 'progress': the text of one posted batch arrives
\* (each posted batch is answered once, in any order)
ServiceOnProgress ==
  /\ impl = "service"
  /\ pc = "awaitMessages"
  /\ \E req \in inFlight, r \in Responses :
       /\ r.kind # "throw"
       /\ response' = r
       /\ inFlight' = inFlight \ {req}
       /\ allGeneratedFiles' =
            IF r.kind = "json" THEN assign(allGeneratedFiles, r.files)
            ELSE allGeneratedFiles
       /\ trace' =
            IF r.kind \in {"json", "nofiles"}
            THEN Append(trace, Ev("response-ok", req[1], req[2], 1))
            ELSE trace \o <<Ev("response-fail", req[1], req[2], 1),
                            Ev("batch-failed", req[1], req[2], 1)>>
  /\ completedBatches' = completedBatches + 1
  /\ pc' = IF completedBatches' = Len(batches) THEN "awaitZip" ELSE pc
  /\ UNCHANGED <<impl, fileContents, maxBatchChars, projectStructure, partName,
                 batches, i, attempt, archive>>
  /\ UNCHANGED hostVars

\* worker.onmessage, case 'error': the worker is terminated
ServiceOnError ==
  /\ impl = "service"
  /\ pc = "awaitMessages"
  /\ inFlight # {}
  /\ Abort(trace)
  /\ Cleanup("error")
  /\ UNCHANGED <<impl, fileContents, maxBatchChars, projectStructure, response,
                 allGeneratedFiles, completedBatches, lastAnalysisContent,
                 handled, progressItems, invocations, analysisVars>>

\* zip.generateAsync settles inside the 'progress' handler; a rejection
\* leaves the handler without reaching its cleanup
ServiceZipReturns ==
  /\ impl = "service"
  /\ pc = "awaitZip"
  /\ \E ok \in BOOLEAN :
       IF ok
       THEN /\ archive' = [built |-> TRUE, files |-> zipOf(allGeneratedFiles)]
            /\ trace' = Append(trace, Ev("download", "", 0, 0))
            /\ pc' = "done"
            /\ Cleanup(reimplementationOutput)
       ELSE /\ pc' = "failed"
            /\ UNCHANGED <<archive, trace, buttonsDisabled, liveWorkers,
                           reimplementationWorker, reimplementationOutput>>
  /\ UNCHANGED <<impl, fileContents, maxBatchChars, projectStructure, partName,
                 batches, i, attempt, response, allGeneratedFiles, inFlight,
                 completedBatches, lastAnalysisContent, handled, progressItems,
                 invocations, analysisVars>>

NextService ==
  ServiceStart \/ ServiceOnProgress \/ ServiceOnError \/ ServiceZipReturns

SpecService == InitRun("service") /\ [][NextService]_vars

----------------------------------------------------------------------------
(* services/reimplementation.ts with the model parameter: the page creates *)
(* the worker of reimplementation.worker.ts and handles what it posts      *)

InitHost ==
  /\ impl = "worker"
  /\ fileContents \in RunFileLists \cup {<<>>}
  /\ lastAnalysisContent \in AnalysisTexts
  /\ maxBatchChars \in RunBudgets
  /\ projectStructure = [n \in PartNames("worker") |-> <<>>]
  /\ pc = "idle"
  /\ Idle

\* a page that creates the new worker and keeps the previous one running
keepPrevious(live, previous) == live

\* if (state.reimplementationWorker) state.reimplementationWorker.terminate()
terminatePrevious(live, previous) == live \ {previous}

\* reimplementAndZip(repoUrl, model, maxBatchChars), called at any time (the
\* repository URL parses): guard, buttons, the previous worker terminated
\* with whatever it was doing, the new worker and its message
HostReimplementAndZip ==
  /\ impl = "worker"
  /\ pc # "refused"
  /\ invocations < MaxInvocations
  /\ IF hasAnalysisData(lastAnalysisContent, fileContents)
     THEN /\ invocations' = invocations + 1
          /\ buttonsDisabled' = TRUE
          /\ progressItems' = {}
          /\ reimplementationOutput' = ""
          /\ liveWorkers' =
               terminatePrevious(liveWorkers, reimplementationWorker)
                 \cup {invocations + 1}
          /\ reimplementationWorker' = invocations + 1
          /\ handled' = 0
          /\ projectStructure' = [n \in PartNames("worker") |-> <<>>]
          /\ partName' = ""
          /\ batches' = <<>>
          /\ i' = 0
          /\ attempt' = 0
          /\ inFlight' = {}
          /\ trace' = <<>>
          /\ archive' = NoArchive
          /\ response' = NoResponse
          /\ allGeneratedFiles' = EmptyFiles
          /\ pc' = "start"
          /\ UNCHANGED <<lastAnalysisContent, analysisVars>>
     ELSE Refuse /\ UNCHANGED <<response, allGeneratedFiles>>
  /\ UNCHANGED <<impl, fileContents, maxBatchChars, completedBatches>>

\* what the worker posts to the page (the other events of trace are marks)
Posted == {"progress", "progress-success", "complete", "error"}

\* position of the next posted message the page has not handled, 0 if none
nextMessage ==
  LET later == {a \in (handled + 1)..Len(trace) : trace[a].type \in Posted}
  IN  IF later = {} THEN 0 ELSE Min(later)

\* a flag computed as if batches were counted from 1
isStartingFromOne(k) == k = 1

\* isStarting: i === 0, as posted with the progress message of batch i
isStarting(k) == k = 0

\* worker.onmessage of the page, one message at a time (the texts written to
\* the list items are not kept)
HostOnMessage ==
  /\ impl = "worker"
  /\ reimplementationWorker \in liveWorkers
  /\ nextMessage # 0
  /\ handled' = nextMessage
  /\ LET e == trace[nextMessage]
     IN  CASE e.type = "progress" ->
                /\ progressItems' =
                     IF isStarting(e.batch) /\ e.partName \notin progressItems
                     THEN progressItems \cup {e.partName}
                     ELSE progressItems
                /\ UNCHANGED <<buttonsDisabled, liveWorkers,
                               reimplementationWorker, reimplementationOutput>>
           [] e.type = "progress-success" ->
                UNCHANGED <<progressItems, buttonsDisabled, liveWorkers,
                            reimplementationWorker, reimplementationOutput>>
           [] e.type = "complete" ->
                Cleanup("download") /\ UNCHANGED progressItems
           [] e.type = "error" ->
                Cleanup("error") /\ UNCHANGED progressItems
  /\ UNCHANGED <<impl, fileContents, maxBatchChars, projectStructure, partName,
                 batches, i, attempt, response, pc, allGeneratedFiles, inFlight,
                 trace, completedBatches, archive, lastAnalysisContent,
                 invocations, analysisVars>>

\* worker.onerror of the page: the worker script fails before its handler
\* has run
HostOnError ==
  /\ impl = "worker"
  /\ reimplementationWorker \in liveWorkers
  /\ pc = "start"
  /\ pc' = "failed"
  /\ Cleanup("error")
  /\ UNCHANGED <<impl, fileContents, maxBatchChars, projectStructure, partName,
                 batches, i, attempt, response, allGeneratedFiles, inFlight,
                 trace, completedBatches, archive, lastAnalysisContent, handled,
                 progressItems, invocations, analysisVars>>

\* the worker runs as long as it has not been terminated
HostedWorker == reimplementationWorker \in liveWorkers /\ NextWorker

NextHost ==
  HostReimplementAndZip \/ HostOnMessage \/ HostOnError \/ HostedWorker

SpecHost == InitHost /\ [][NextHost]_vars

----------------------------------------------------------------------------
(* Claims about the batch runners *)

Positions == 1..Len(trace)

IsResponse(e) == e.type \in {"response-ok", "response-fail"}

\* positions of the generation calls issued for batch k of part n
RequestsFor(n, k) ==
  {a \in Positions :
     trace[a].type = "request" /\ trace[a].partName = n /\ trace[a].batch = k}

SameBatch(e, f) == e.partName = f.partName /\ e.batch = f.batch

\* C6: at most one generation request is in flight, and between two
\* requests of a run the response to the earlier one has been processed.
C6_NoConcurrentRequests ==
  /\ Cardinality(inFlight) <= 1
  /\ \A a, b \in Positions :
       (a < b /\ trace[a].type = "request" /\ trace[b].type = "request")
         => \E c \in (a + 1)..(b - 1) :
              IsResponse(trace[c]) /\ SameBatch(trace[c], trace[a])

\* C7: a batch whose first call failed and whose second call succeeded made
\* exactly 2 calls, is never marked failed, has its returned files merged,
\* and is followed by the next batch (or its part's success status), not by
\* the run's error.
C7_RetryThenSucceed ==
  \A a, b \in Positions :
    ( /\ a < b
      /\ trace[a].type = "response-fail" /\ trace[a].attempt = 1
      /\ trace[b].type = "response-ok" /\ trace[b].attempt = 2
      /\ SameBatch(trace[a], trace[b]) )
    => /\ Cardinality(RequestsFor(trace[b].partName, trace[b].batch)) = 2
       /\ \A c \in Positions :
            trace[c].type = "batch-failed" => ~SameBatch(trace[c], trace[b])
       /\ (\A c \in (b + 1)..Len(trace) : ~IsResponse(trace[c]))
            => \A p \in DOMAIN response.files :
                 /\ p \in DOMAIN allGeneratedFiles
                 /\ allGeneratedFiles[p] = response.files[p]
       /\ b < Len(trace)
       /\ \/ trace[b + 1] = Ev("progress-success", trace[b].partName, 0, 0)
          \/ /\ trace[b + 1] = Ev("progress", trace[b].partName, trace[b].batch + 1, 0)
             /\ trace[b + 2] = Ev("request", trace[b].partName, trace[b].batch + 1, 1)

C7_Witness ==
  \E a, b \in Positions :
    /\ a < b
    /\ trace[a].type = "response-fail" /\ trace[a].attempt = 1
    /\ trace[b].type = "response-ok" /\ trace[b].attempt = 2
    /\ SameBatch(trace[a], trace[b])
    /\ trace[b + 1].type = "progress"
    /\ DOMAIN response.files # {}
    /\ pc = "awaitGenerate"

\* C8: a batch never gets more than 2 calls; a first failure is followed by
\* the retry; and when the second call fails too the batch is marked failed
\* after exactly 2 calls, the run ends with the error and no archive is
\* built or downloaded.
C8_ExhaustedAfterTwoAttempts ==
  /\ \A a \in Positions :
       Cardinality(RequestsFor(trace[a].partName, trace[a].batch)) <= 2
  /\ \A a \in Positions :
       (trace[a].type = "response-fail" /\ trace[a].attempt = 1)
         => /\ a < Len(trace)
            /\ trace[a + 1].type = "warning"
            /\ pc = "backoff" \/ trace[a + 2].type = "request"
  /\ \A a \in Positions :
       (trace[a].type = "response-fail" /\ trace[a].attempt = 2)
         => /\ Len(trace) = a + 2
            /\ trace[a + 1].type = "batch-failed"
            /\ trace[a + 2].type = "error"
  /\ \A a \in Positions :
       trace[a].type = "batch-failed"
         => /\ Cardinality(RequestsFor(trace[a].partName, trace[a].batch)) = 2
            /\ pc = "failed"
            /\ ~archive.built
            /\ \A c \in Positions : trace[c].type # "download"

C8_Witness ==
  /\ pc = "failed"
  /\ \E a \in Positions : trace[a].type = "batch-failed" /\ trace[a].batch = 1
  /\ allGeneratedFiles # EmptyFiles
  /\ ~archive.built

\* C9: in the worker a failed first attempt of a batch (thrown error, text
\* that is not JSON, JSON without files) is retried: it is not yet the end
\* of the batch nor of the run, and a batch is given up only after 2 calls.
C9_WorkerRetriesFailedBatch ==
  /\ \A a \in Positions :
       (trace[a].type = "response-fail" /\ trace[a].attempt = 1)
         => /\ a < Len(trace)
            /\ trace[a + 1].type \notin {"batch-failed", "error"}
  /\ \A a \in Positions :
       trace[a].type = "batch-failed"
         => Cardinality(RequestsFor(trace[a].partName, trace[a].batch)) = 2

\* C10: after a batch has exhausted its attempts no generation request is
\* issued, no part is reported as successfully generated, and no archive is
\* completed or downloaded.
C10_AbortOnExhaustion ==
  /\ \A a, b \in Positions :
       (a < b /\ trace[a].type = "batch-failed")
         => trace[b].type \notin {"request", "progress-success", "complete",
                                  "download"}
  /\ (\E a \in Positions : trace[a].type = "batch-failed") => ~archive.built

----------------------------------------------------------------------------
(* Claims about the archive and the accumulated files *)

\* the batches the run makes of part n
BatchesOf(n) == makeBatches(impl, projectStructure[n], maxBatchChars)

\* batch k of part n has been answered and accepted
Succeeded(n, k) ==
  \E a \in Positions :
    trace[a].type = "response-ok" /\ trace[a].partName = n /\ trace[a].batch = k

\* batch k of part n has been given up
GivenUp(n, k) ==
  \E a \in Positions :
    trace[a].type = "batch-failed" /\ trace[a].partName = n /\ trace[a].batch = k

\* C11: an archive is built or downloaded only when every batch of every
\* non-empty part succeeded; no run has a given-up batch and an archive.
C11_ArchiveOnlyIfAllSucceeded ==
  (archive.built \/ \E a \in Positions : trace[a].type \in {"complete", "download"})
    => \A n \in PartNames(impl) :
         \A k \in 0..(Len(BatchesOf(n)) - 1) :
           Succeeded(n, k) /\ ~GivenUp(n, k)

\* the event of the response processed last
LastResponseEvent ==
  trace[Max({a \in Positions : IsResponse(trace[a])})]

\* the text is JSON (the index runner strips a code fence first) and the
\* parsed object has a files key
ParsesWithFiles(r) == r.kind \in {"json", "fenced"}

\* C12: a response is taken as the success of its batch only if its text
\* parses as JSON and the parsed object has a files key; a text that does
\* not parse, or parses without a files key, is a failure of the attempt and
\* is never reported as a generated batch.
C12_SuccessNeedsFilesKey ==
  (\E a \in Positions : IsResponse(trace[a]))
    => /\ LastResponseEvent.type = "response-ok" => ParsesWithFiles(response)
       /\ response.kind \in {"unparseable", "nofiles"}
            => LastResponseEvent.type = "response-fail"

\* the step processes a response that its runner accepts
AcceptsInStep ==
  \E a \in (Len(trace) + 1)..Len(trace') : trace'[a].type = "response-ok"

\* C13: the accumulated files only grow: a step that accepts a batch leaves
\* the right-biased union of the files so far and the batch's files (the
\* batch's content wins on a path present in both), and every other step
\* leaves the accumulated files as they are.
C13_AccumulatedFilesGrow ==
  [][ /\ DOMAIN allGeneratedFiles \subseteq DOMAIN allGeneratedFiles'
      /\ IF AcceptsInStep
         THEN /\ DOMAIN allGeneratedFiles' =
                   DOMAIN allGeneratedFiles \cup DOMAIN response'.files
              /\ \A p \in DOMAIN allGeneratedFiles' :
                   allGeneratedFiles'[p] =
                     IF p \in DOMAIN response'.files
                     THEN response'.files[p]
                     ELSE allGeneratedFiles[p]
         ELSE allGeneratedFiles' = allGeneratedFiles ]_vars

\* two batches accepted; the later one rewrote one path and left the other
C13_Witness ==
  /\ Cardinality({a \in Positions : trace[a].type = "response-ok"}) = 2
  /\ DOMAIN allGeneratedFiles = {"x/y.ts", "z.ts"}
  /\ DOMAIN response.files = {"x/y.ts"}
  /\ response.files["x/y.ts"] = "v2"
  /\ allGeneratedFiles["x/y.ts"] = "v2"
  /\ allGeneratedFiles["z.ts"] = "v1"

\* positions of the success status of part n
SuccessOf(n) ==
  {a \in Positions :
     trace[a].type = "progress-success" /\ trace[a].partName = n}

\* C14: a part's success status is emitted at most once, only for a
\* non-empty part and only after every batch of the part was accepted (none
\* given up, none unprocessed); once all batches of a non-empty part are
\* accepted it has been emitted exactly once.
C14_PartSuccessOnceAfterAllBatches ==
  \A n \in PartNames(impl) :
    /\ Cardinality(SuccessOf(n)) <= 1
    /\ \A a \in SuccessOf(n) :
         /\ Len(projectStructure[n]) # 0
         /\ \A k \in 0..(Len(BatchesOf(n)) - 1) :
              /\ ~GivenUp(n, k)
              /\ \E b \in 1..(a - 1) :
                   /\ trace[b].type = "response-ok"
                   /\ trace[b].partName = n
                   /\ trace[b].batch = k
    /\ ( /\ Len(projectStructure[n]) # 0
         /\ \A k \in 0..(Len(BatchesOf(n)) - 1) : Succeeded(n, k) )
       => Cardinality(SuccessOf(n)) = 1

\* a finished run with a part of two batches and a later part
C14_Witness ==
  /\ pc = "done"
  /\ \E n, m \in PartNames(impl) :
       /\ PartIndex(impl, n) < PartIndex(impl, m)
       /\ Len(BatchesOf(n)) = 2
       /\ Cardinality(SuccessOf(n)) = 1
       /\ Cardinality(SuccessOf(m)) = 1

\* parts declared strictly between parts n and m
PartsBetween(n, m) ==
  {q \in PartNames(impl) :
     PartIndex(impl, n) < PartIndex(impl, q) /\ PartIndex(impl, q) < PartIndex(impl, m)}

\* C15: a part with no files has no batch, no generation request and no
\* status event of any kind; the run goes from one non-empty part straight
\* to the next non-empty part in declaration order.
C15_EmptyPartIsSilent ==
  pc # "start" =>
    /\ \A n \in PartNames(impl) :
         Len(projectStructure[n]) = 0
           => /\ Len(BatchesOf(n)) = 0
              /\ \A a \in Positions : trace[a].partName # n
    /\ \A a \in Positions :
         (trace[a].type = "progress-success" /\ a < Len(trace))
           => IF trace[a + 1].type = "progress"
              THEN /\ PartIndex(impl, trace[a].partName)
                        < PartIndex(impl, trace[a + 1].partName)
                   /\ \A q \in PartsBetween(trace[a].partName,
                                             trace[a + 1].partName) :
                        Len(projectStructure[q]) = 0
              ELSE /\ trace[a + 1].type \in {"complete", "download", "error"}
                   /\ \A q \in PartNames(impl) :
                        PartIndex(impl, trace[a].partName) < PartIndex(impl, q)
                          => Len(projectStructure[q]) = 0

\* a finished run with an empty part between two non-empty ones
C15_Witness ==
  /\ pc = "done"
  /\ \E n, q, m \in PartNames(impl) :
       /\ q \in PartsBetween(n, m)
       /\ Len(projectStructure[q]) = 0
       /\ Cardinality(SuccessOf(n)) = 1
       /\ Cardinality(SuccessOf(m)) = 1

----------------------------------------------------------------------------
(* Claims about the page and the worker's messages *)

\* C17: with no analysed files, or no analysis text, reimplementAndZip only
\* shows its error: no worker exists, no generation request is issued, the
\* buttons stay enabled and no archive is built, before and after the call.
C17_RefusesWithoutAnalysis ==
  (lastAnalysisContent = "" \/ Len(fileContents) = 0)
    => /\ pc \in {"idle", "start", "refused"}
       /\ pc = "refused" => reimplementationOutput = "error"
       /\ liveWorkers = {}
       /\ reimplementationWorker = 0
       /\ trace = <<>>
       /\ inFlight = {}
       /\ ~buttonsDisabled
       /\ ~archive.built

\* the call was refused for an empty file list although the text exists
C17_Witness ==
  /\ pc = "refused"
  /\ lastAnalysisContent = "analysis"
  /\ Len(fileContents) = 0
  /\ reimplementationOutput = "error"

\* positions of the worker's terminal messages
Terminals == {a \in Positions : trace[a].type \in {"complete", "error"}}

C19_InFlightCallIsProcessed ==
  [][ \A rq \in inFlight :
        rq \notin inFlight'
          => \E a \in (Len(trace) + 1)..Len(trace') :
               /\ IsResponse(trace'[a])
               /\ trace'[a].partName = rq[1]
               /\ trace'[a].batch = rq[2] ]_vars

\* positions of the start status of batch k of part n
ProgressFor(n, k) ==
  {a \in Positions :
     trace[a].type = "progress" /\ trace[a].partName = n /\ trace[a].batch = k}

\* event e belongs to a batch that is processed before the batch of f:
\* an earlier declared part, or the same part and a smaller batch index
BatchBefore(e, f) ==
  \/ PartIndex(impl, e.partName) < PartIndex(impl, f.partName)
  \/ e.partName = f.partName /\ e.batch < f.batch

----------------------------------------------------------------------------
(* Claims about termination, the batcher and the categorizer *)

\* the batches of all parts of the run
RECURSIVE TotalBatches(_)
TotalBatches(S) ==
  IF S = {} THEN 0
  ELSE LET n == CHOOSE x \in S : TRUE
       IN  Len(BatchesOf(n)) + TotalBatches(S \ {n})

\* C21: when every awaited call settles, a started run reaches its end
\* (archive handed out, or the error); a run that has started and not ended
\* is waiting for a generation call, the backoff or the zip, and it waits
\* for a generation call exactly when one is outstanding; the generation
\* calls of a run never exceed 2 times its batches.
C21_RunTerminatesWithinTwoCallsPerBatch ==
  /\ [](Cardinality({a \in Positions : trace[a].type = "request"})
          <= 2 * TotalBatches(PartNames(impl)))
  /\ [](pc \in {"start", "refused", "awaitGenerate", "backoff", "awaitZip",
                "done", "failed"})
  /\ [](pc = "awaitGenerate" <=> inFlight # {})
  /\ (pc \in {"awaitGenerate", "backoff", "awaitZip"}) ~> (pc \in {"done", "failed"})

\* a run that ended after a batch used both of its calls
C21_Witness ==
  /\ pc \in {"done", "failed"}
  /\ \E n \in PartNames(impl) :
       /\ Len(BatchesOf(n)) = 2
       /\ Cardinality(RequestsFor(n, 0)) = 2
       /\ Cardinality(RequestsFor(n, 1)) = 2

\* C22: a batch is closed only when the next file does not fit: for two
\* consecutive batches the character count of the earlier one plus the
\* content length of the first file of the later one exceeds maxBatchChars
\* (a file that fills the batch exactly is still added to it).
C22_BatchClosedOnlyWhenFull ==
  pc = "batched" =>
    \A b \in 1..(Len(batches) - 1) :
      charCount(batches[b]) + Len(batches[b + 1][1].content) > maxBatchChars

\* a batch filled exactly by its second file, followed by another batch
C22_Witness ==
  /\ pc = "batched"
  /\ \E b \in 1..(Len(batches) - 1) :
       /\ Len(batches[b]) = 2
       /\ charCount(batches[b]) = maxBatchChars

\* the upper-case letter of each lower-case letter
UpperOf ==
  [c \in {LowerCase[k] : k \in 1..Len(LowerCase)} |->
     UpperCase[CHOOSE k \in 1..Len(LowerCase) : LowerCase[k] = c]]

\* the path written in lower-case, and in upper-case, letters
AllLower(s) ==
  [k \in 1..Len(s) |-> IF s[k] \in DOMAIN LowerOf THEN LowerOf[s[k]] ELSE s[k]]

AllUpper(s) ==
  [k \in 1..Len(s) |-> IF s[k] \in DOMAIN UpperOf THEN UpperOf[s[k]] ELSE s[k]]

\* two paths that differ in letter case at most
SameUpToCase(p, q) == AllLower(p) = AllLower(q)

\* C23: paths that differ only in letter case get the same category: a
\* categorized file sits in the part that the categorizer gives to every
\* other spelling of its path (all lower-case, all upper-case, and any
\* other input path equal up to case).
C23_CaseInsensitivePath ==
  pc = "categorized" =>
    \A k \in 1..Len(fileContents) :
      \A q \in {AllLower(fileContents[k].path), AllUpper(fileContents[k].path)}
                 \cup {p \in CatPaths : SameUpToCase(p, fileContents[k].path)} :
        PartsHolding(fileContents[k]) = assignedParts(impl, q)

\* both spellings of src/service.css were categorized, into Styling
C23_Witness ==
  /\ pc = "categorized"
  /\ Len(fileContents) = 2
  /\ fileContents[1].path = PathServiceCssUpper
  /\ fileContents[2].path = PathServiceCss
  /\ Range(projectStructure["Styling"]) = Range(fileContents)

\* C24: the batcher that closes, resets and then pushes the file (worker,
\* first index.tsx variant, service) and the batcher that closes and
\* restarts the batch as [file] (second index.tsx variant) make the same
\* batches of every file list under every budget, and the run's batches are
\* those.
C24_BatchersAgree ==
  pc = "batched" =>
    /\ makeBatches("worker", projectStructure[partName], maxBatchChars)
         = makeBatches("index", projectStructure[partName], maxBatchChars)
    /\ batches = makeBatches("worker", projectStructure[partName], maxBatchChars)
    /\ batches = makeBatches("index", projectStructure[partName], maxBatchChars)

\* the restarting batcher closed a batch and went on to fill the next one
C24_Witness ==
  /\ pc = "batched"
  /\ impl = "index"
  /\ Len(batches) >= 2
  /\ Len(batches[1]) >= 2
  /\ Len(batches[2]) >= 2

\* the ordered part configurations found in the source, each with an
\* empty-keyword Miscellaneous
Configurations == {WorkerProjectStructure, IndexProjectParts}

\* C25: on the same ordered parts and keywords the categorizer written with
\* find(...) || 'Miscellaneous' and the one written as a loop that skips
\* Miscellaneous name the same part for every path, and the run has put the
\* file into that part.
C25_CategorizersAgree ==
  pc = "categorized" =>
    \A k \in 1..Len(fileContents) :
      /\ \A parts \in Configurations :
           findAssignedPart(parts, fileContents[k].path)
             = loopAssignedPart(parts, fileContents[k].path)
      /\ PartsHolding(fileContents[k])
           = {findAssignedPart(ProjectParts(impl), fileContents[k].path)}
      /\ PartsHolding(fileContents[k])
           = {loopAssignedPart(ProjectParts(impl), fileContents[k].path)}

\* the loop categorized a path that matches two parts and one that matches
\* none
C25_Witness ==
  /\ pc = "categorized"
  /\ impl = "index"
  /\ Len(fileContents) = 2
  /\ fileContents[1].path = PathServiceCss
  /\ someKeyword(IndexProjectParts[2], PathServiceCss)
  /\ someKeyword(IndexProjectParts[3], PathServiceCss)
  /\ fileContents[1] \in Range(projectStructure["Styling"])
  /\ fileContents[2].path = PathReadme
  /\ fileContents[2] \in Range(projectStructure["Miscellaneous"])

\* C26: no batch is empty, a non-empty file list gives at least one batch,
\* and there are never more batches than files.
C26_NoEmptyBatch ==
  pc = "batched" =>
    /\ \A b \in 1..Len(batches) : Len(batches[b]) >= 1
    /\ Len(projectStructure[partName]) > 0 => Len(batches) >= 1
    /\ Len(batches) <= Len(projectStructure[partName])

\* the first file alone exceeds the budget and is the whole first batch
C26_Witness ==
  /\ pc = "batched"
  /\ Len(projectStructure[partName][1].content) > maxBatchChars
  /\ batches[1] = <<projectStructure[partName][1]>>
  /\ Len(batches) = Len(projectStructure[partName])
  /\ Len(batches) >= 2

\* C27: every progress and progress-success message of a part comes after
\* (or is) a progress message of that part with isStarting set, and every
\* such message the page has handled found the part's list item in
\* progressItems.
C27_ListItemExistsBeforeUse ==
  LET status == {a \in Positions :
                   trace[a].type \in {"progress", "progress-success"}}
  IN  /\ \A a \in status :
           \E b \in 1..a :
             /\ trace[b].type = "progress"
             /\ trace[b].partName = trace[a].partName
             /\ trace[b].batch = 0
      /\ \A a \in status :
           a <= handled => trace[a].partName \in progressItems

\* the page has handled the progress message of a part's second batch, that
\* part's success message and the first message of a later part
C27_Witness ==
  /\ Cardinality(progressItems) = 2
  /\ \E a, b \in 1..handled :
       /\ a < b
       /\ trace[a].type = "progress"
       /\ trace[a].batch = 1
       /\ trace[b].type = "progress-success"
       /\ trace[b].partName = trace[a].partName

\* C28: at most one worker is live, and it is the one held in
\* state.reimplementationWorker; once the page has handled a complete or
\* error message, or worker.onerror has run, no worker is live,
\* state.reimplementationWorker is null and the buttons are enabled.
C28_OneWorkerAndCleanupAfterTerminal ==
  LET terminalHandled ==
        \/ handled > 0 /\ trace[handled].type \in {"complete", "error"}
        \/ pc = "failed" /\ trace = <<>>
  IN  /\ Cardinality(liveWorkers) <= 1
      /\ liveWorkers \subseteq {reimplementationWorker}
      /\ terminalHandled =>
           /\ liveWorkers = {}
           /\ reimplementationWorker = 0
           /\ ~buttonsDisabled

\* the page has handled the complete message of the worker of a second
\* invocation
C28_Witness ==
  /\ invocations = 2
  /\ reimplementationOutput = "download"
  /\ handled > 0
  /\ trace[handled].type = "complete"
  /\ liveWorkers = {}
  /\ ~buttonsDisabled

-----------------------------------------------------------------------------
(* The analysis phase: analyzeRepository and the guard of reimplementAndZip *)

\* config.maxAnalysisChars (250000 in the source, scaled to the paths and
\* contents of RunFiles)
maxAnalysisChars == 60

\* fileContents.map(f => `--- FILE: ${f.path} ---\n${f.content}`)
\*   .join('\n\n').length
RECURSIVE allFileContentLength(_)
allFileContentLength(files) ==
  IF files = <<>> THEN 0
  ELSE 10 + Len(Head(files).path) + 5 + Len(Head(files).content)
         + (IF Len(files) > 1 THEN 2 ELSE 0)
         + allFileContentLength(Tail(files))

InitAnalysis ==
  /\ impl \in {"service", "index"}
  /\ fileContents = <<>>
  /\ lastAnalysisContent = ""
  /\ maxBatchChars \in RunBudgets
  /\ projectStructure = [n \in PartNames(impl) |-> <<>>]
  /\ pc = "idle"
  /\ invocations = 0
  /\ Idle

\* what analyzeRepository leaves alone
AnalysisFrame ==
  UNCHANGED <<impl, maxBatchChars, projectStructure, partName, batches, i,
              attempt, response, pc, allGeneratedFiles, inFlight, trace,
              completedBatches, archive, buttonsDisabled,
              reimplementationWorker, liveWorkers, handled, progressItems,
              reimplementationOutput, invocations>>

\* analyzeRepository is called and waits for the repository's metadata, the
\* file selection and the files' contents
AnalyzeRepository ==
  /\ analysisPc = "idle"
  /\ analysisRun < MaxAnalysisRuns
  /\ analysisRun' = analysisRun + 1
  /\ analysisPc' = "fetching"
  /\ UNCHANGED <<fileContents, lastAnalysisContent, filesWrittenBy,
                 textWrittenBy>>
  /\ AnalysisFrame

\* state.lastAnalysisContent = ... of the run in progress
writeAnalysis(text) ==
  /\ lastAnalysisContent' = text
  /\ textWrittenBy' = analysisRun

\* a fetch or the file selection throws: the catch block shows the error
AnalysisFetchFails ==
  /\ analysisPc = "fetching"
  /\ analysisPc' = "idle"
  /\ UNCHANGED <<analysisRun, fileContents, lastAnalysisContent,
                 filesWrittenBy, textWrittenBy>>
  /\ AnalysisFrame

\* the contents arrive (possibly none: a fetch that yields nothing is
\* filtered out) and are stored; then the confirmation dialog of
\* analysis.ts, the analysis text the user supplied, the size limit of
\* index.tsx, or the wait for the generated analysis
AnalysisFilesFetched ==
  /\ analysisPc = "fetching"
  /\ \E fetched \in RunFileLists \cup {<<>>}, existingAnalysis \in AnalysisTexts,
        confirmed \in BOOLEAN :
       /\ impl = "index" => confirmed
       /\ fileContents' = fetched
       /\ filesWrittenBy' = analysisRun
       /\ IF impl = "service" /\ ~confirmed
          THEN /\ analysisPc' = "idle"
               /\ UNCHANGED <<lastAnalysisContent, textWrittenBy>>
          ELSE IF existingAnalysis # ""
          THEN /\ analysisPc' = "idle"
               /\ writeAnalysis(existingAnalysis)
          ELSE IF impl = "index"
                  /\ allFileContentLength(fetched) > maxAnalysisChars
          THEN /\ analysisPc' = "idle"
               /\ UNCHANGED <<lastAnalysisContent, textWrittenBy>>
          ELSE /\ analysisPc' = "analysing"
               /\ UNCHANGED <<lastAnalysisContent, textWrittenBy>>
  /\ UNCHANGED analysisRun
  /\ AnalysisFrame

\* the generated analysis arrives and is stored
AnalysisTextReturns ==
  /\ analysisPc = "analysing"
  /\ analysisPc' = "idle"
  /\ \E analysisContent \in AnalysisTexts : writeAnalysis(analysisContent)
  /\ UNCHANGED <<analysisRun, fileContents, filesWrittenBy>>
  /\ AnalysisFrame

\* the generation of the analysis throws
AnalysisTextFails ==
  /\ analysisPc = "analysing"
  /\ analysisPc' = "idle"
  /\ UNCHANGED <<analysisRun, fileContents, lastAnalysisContent,
                 filesWrittenBy, textWrittenBy>>
  /\ AnalysisFrame

\* reimplementAndZip is called and evaluates its guard: the run starts on
\* what is stored, or the error is shown (the run itself is NextIndex and
\* NextService)
ReimplementAndZipGuard ==
  /\ invocations < MaxInvocations
  /\ invocations' = invocations + 1
  /\ IF hasAnalysisData(lastAnalysisContent, fileContents)
     THEN pc' = "start" /\ UNCHANGED reimplementationOutput
     ELSE pc' = "refused" /\ reimplementationOutput' = "error"
  /\ UNCHANGED <<impl, fileContents, maxBatchChars, projectStructure, partName,
                 batches, i, attempt, response, allGeneratedFiles, inFlight,
                 trace, completedBatches, archive, lastAnalysisContent,
                 buttonsDisabled, reimplementationWorker, liveWorkers, handled,
                 progressItems, analysisVars>>

NextAnalysis ==
  \/ AnalyzeRepository
  \/ AnalysisFetchFails
  \/ AnalysisFilesFetched
  \/ AnalysisTextReturns
  \/ AnalysisTextFails
  \/ ReimplementAndZipGuard

SpecAnalysis == InitAnalysis /\ [][NextAnalysis]_vars

\* C29: whenever reimplementAndZip passes its guard, the stored file list
\* and the stored analysis text were written by the same analysis run.
C29_GuardPassesOnOneRunsData ==
  [][(invocations' = invocations + 1 /\ pc' = "start")
       => filesWrittenBy = textWrittenBy]_vars

\* the step processes a response that its runner does not accept
FailsInStep ==
  \E a \in (Len(trace) + 1)..Len(trace') : trace'[a].type = "response-fail"

\* C30: a failed attempt leaves the accumulated files as they were, and so
\* does the wait before the retry; the attempt that succeeds after a failure
\* adds its own response's entries and nothing else. So a run whose only
\* accepted response so far is the latest one holds exactly that response's
\* files, and a run with no accepted response holds none.
C30_FailedAttemptLeavesFilesUnchanged ==
  /\ [][ /\ FailsInStep => allGeneratedFiles' = allGeneratedFiles
         /\ pc = "backoff" => allGeneratedFiles' = allGeneratedFiles
         /\ (AcceptsInStep /\ attempt = 2)
              => allGeneratedFiles' = assign(allGeneratedFiles, response'.files)
       ]_vars
  /\ [](LET oks == {a \in Positions : trace[a].type = "response-ok"}
        IN  /\ oks = {} => allGeneratedFiles = EmptyFiles
            /\ (Cardinality(oks) = 1 /\ LastResponseEvent.type = "response-ok")
                 => allGeneratedFiles = response.files)

\* an earlier batch was accepted, the next batch failed once and was
\* accepted on its second attempt; the files hold the earlier batch's path
\* and the path of the accepted response
C30_Witness ==
  /\ \E a, b, c \in Positions :
       /\ a < b /\ b < c
       /\ trace[a].type = "response-ok"
       /\ trace[b].type = "response-fail" /\ trace[b].attempt = 1
       /\ trace[c].type = "response-ok" /\ trace[c].attempt = 2
       /\ SameBatch(trace[b], trace[c])
       /\ \A d \in (c + 1)..Len(trace) : ~IsResponse(trace[d])
  /\ DOMAIN response.files = {"z.ts"}
  /\ DOMAIN allGeneratedFiles = {"x/y.ts", "z.ts"}
  /\ allGeneratedFiles["z.ts"] = response.files["z.ts"]

====
